---------------------------- MODULE Spec2Model ----------------------------
(***************************************************************************)
(* A model of ddtracer, the OpenTracing wrapper of the DataDog tracer:     *)
(* the Tracer facade (StartSpan, Inject, Extract), the Span wrapper        *)
(* (SetTag, Tracer) and the text-map propagator.                           *)
(*                                                                         *)
(* Strings are sequences of one-character strings, so that                 *)
(* strings.ToLower, strconv.FormatUint and strconv.ParseUint are computed  *)
(* character by character.  A carrier is an opentracing.TextMapCarrier, a  *)
(* Go map from string to string: a function from keys to values.           *)
(***************************************************************************)
EXTENDS Integers, Sequences, FiniteSets, TLC

(***************************************************************************)
(* Bounds of the model.                                                    *)
(***************************************************************************)
\* Width of the identifiers.  The code's identifiers are uint64
\* (ParseUint(v, 16, 64)); TLC's integers are 32 bits wide, so the model
\* keeps the arithmetic of strconv and scales the width down.
BitSize == 8
\* Number of spans StartSpan may create in one behaviour.
MaxSpans == 2
\* Number of references one StartSpan call is given.
MaxRefs == 1
\* Number of entries of a carrier received from the wire.
MaxCarrier == 2
\* Depth of the goroutine stack (Go's limit is 1 GB of frames).
MaxStack == 3

VARIABLES
    spans,      \* the spans StartSpan returned, in order of creation
    carrier,    \* the TextMapCarrier the caller passes to Inject and Extract
    injected,   \* the context whose injection into an empty carrier made
                \* carrier what it is, NilContext when there is none
    last,       \* the last call: its arguments and what it returned
    stack       \* number of frames of Span.Tracer on the goroutine stack

vars == <<spans, carrier, injected, last, stack>>

(***************************************************************************)
(* Characters and strings.                                                 *)
(***************************************************************************)
upperLetters == <<"A","B","C","D","E","F","G","H","I","J","K","L","M",
                  "N","O","P","Q","R","S","T","U","V","W","X","Y","Z">>
lowerLetters == <<"a","b","c","d","e","f","g","h","i","j","k","l","m",
                  "n","o","p","q","r","s","t","u","v","w","x","y","z">>
decimalDigits == <<"0","1","2","3","4","5","6","7","8","9">>

\* strconv's digit table: "0123456789abcdefghijklmnopqrstuvwxyz"
digits == decimalDigits \o lowerLetters

IndexOf(seq, c) == CHOOSE i \in 1..Len(seq) : seq[i] = c
Occurs(seq, c) == \E i \in 1..Len(seq) : seq[i] = c

\* The lower-case letter of each upper-case letter.
lowerOf == [c \in {upperLetters[i] : i \in 1..Len(upperLetters)} |->
              lowerLetters[IndexOf(upperLetters, c)]]

\* unicode.ToLower on one character
lower(c) == IF c \in DOMAIN lowerOf THEN lowerOf[c] ELSE c

\* strings.ToLower
ToLower(s) == [i \in 1..Len(s) |-> lower(s[i])]

(***************************************************************************)
(* strconv.FormatUint and strconv.ParseUint.                               *)
(***************************************************************************)
maxVal == 2^BitSize - 1

RECURSIVE FormatUint(_, _)
FormatUint(u, base) ==
    IF u < base THEN <<digits[u + 1]>>
    ELSE FormatUint(u \div base, base) \o <<digits[(u % base) + 1]>>

\* The value of each character of strconv's digit table.
valueOf == [c \in {digits[i] : i \in 1..Len(digits)} |-> IndexOf(digits, c) - 1]

\* The value of one character as a digit, 255 when it is none
\* (strconv: '0'..'9', then 'a'..'z' after lower()).
digitVal(c) == IF lower(c) \in DOMAIN valueOf THEN valueOf[lower(c)] ELSE 255

\* The loop of ParseUint over s[i..], n the value read so far.
RECURSIVE parseLoop(_, _, _, _)
parseLoop(s, i, n, base) ==
    IF i > Len(s) THEN [n |-> n, err |-> "nil"]
    ELSE LET d == digitVal(s[i])
             cutoff == (maxVal \div base) + 1
         IN  IF d >= base THEN [n |-> 0, err |-> "ErrSyntax"]
             ELSE IF n >= cutoff THEN [n |-> maxVal, err |-> "ErrRange"]
             ELSE IF n * base + d > maxVal THEN [n |-> maxVal, err |-> "ErrRange"]
             ELSE parseLoop(s, i + 1, n * base + d, base)

ParseUint(s, base) ==
    IF s = <<>> THEN [n |-> 0, err |-> "ErrSyntax"]
    ELSE parseLoop(s, 1, 0, base)


(***************************************************************************)
(* Go strings the code names.                                              *)
(***************************************************************************)
tracePrefix == <<"d","d","-","t","r","a","c","e","-">>
fieldSpanID == tracePrefix \o <<"s","p","a","n","i","d">>
fieldTraceID == tracePrefix \o <<"t","r","a","c","e","i","d">>
fieldParentID == tracePrefix \o <<"p","a","r","e","n","t","i","d">>

\* os.Hostname() of the process
DefaultService == <<"h","o","s","t">>
DefaultResource == <<"/">>
ServiceTagKey == <<"s","e","r","v","i","c","e">>
ResourceTagKey == <<"r","e","s","o","u","r","c","e">>

(***************************************************************************)
(* Go maps.                                                                *)
(***************************************************************************)
EmptyMap == [k \in {} |-> <<>>]

\* m[k] = v
MapSet(m, k, v) == [x \in (DOMAIN m) \cup {k} |-> IF x = k THEN v ELSE m[x]]

\* The orders in which a range loop may visit the keys S of a map.
RECURSIVE Orders(_)
Orders(S) ==
    IF S = {} THEN {<<>>}
    ELSE UNION {{<<k>> \o o : o \in Orders(S \ {k})} : k \in S}

(***************************************************************************)
(* Spans of the trace client and the contexts that carry them.             *)
(***************************************************************************)
\* tracer.NewSpan
NewSpan(name, service, resource, spanID, traceID, parentID) ==
    [Name |-> name, Service |-> service, Resource |-> resource,
     SpanID |-> spanID, TraceID |-> traceID, ParentID |-> parentID,
     Meta |-> EmptyMap, Metrics |-> EmptyMap]

\* tracer.Tracer.NewRootSpan: the trace ID of a root is its span ID
NewRootSpan(name, service, resource, spanID) ==
    NewSpan(name, service, resource, spanID, spanID, 0)

\* tracer.Tracer.NewChildSpan
NewChildSpan(name, parent, spanID) ==
    NewSpan(name, parent.Service, name, spanID, parent.TraceID, parent.SpanID)

\* A nil opentracing.SpanContext, and the SpanContext of another tracer.
NilContext == [kind |-> "nil"]
ForeignContext == [kind |-> "foreign"]

\* Span.Context: a *SpanContext whose ctx holds the span
Context(span) == [kind |-> "SpanContext", span |-> span]

\* the type assertion sm.(*SpanContext)
IsSpanContext(sm) == sm.kind = "SpanContext"

\* tracer.SpanFromContext(sc.ctx)
SpanFromContext(sc) == sc.span

(***************************************************************************)
(* textMapPropagator.                                                      *)
(***************************************************************************)
\* Whether the carrier argument implements TextMapWriter and
\* TextMapReader: the caller passes its TextMapCarrier, or something else.
IsTextMap(arg) == arg = "TextMapCarrier"

\* propagatorInject with the identifiers written under each other's key.
propagatorInjectSwapped(span, arg, tm) ==
    IF ~IsTextMap(arg) THEN [carrier |-> tm, err |-> "ErrInvalidCarrier"]
    ELSE LET tm1 == MapSet(tm, fieldSpanID, FormatUint(span.TraceID, 16))
             tm2 == MapSet(tm1, fieldTraceID, FormatUint(span.SpanID, 16))
             tm3 == IF span.ParentID > 0
                    THEN MapSet(tm2, fieldParentID, FormatUint(span.ParentID, 16))
                    ELSE tm2
         IN  [carrier |-> tm3, err |-> "nil"]

\* propagatorInject without the test span.ParentID > 0.
propagatorInjectAlways(span, arg, tm) ==
    IF ~IsTextMap(arg) THEN [carrier |-> tm, err |-> "ErrInvalidCarrier"]
    ELSE LET tm1 == MapSet(tm, fieldSpanID, FormatUint(span.SpanID, 16))
             tm2 == MapSet(tm1, fieldTraceID, FormatUint(span.TraceID, 16))
             tm3 == MapSet(tm2, fieldParentID, FormatUint(span.ParentID, 16))
         IN  [carrier |-> tm3, err |-> "nil"]

propagatorInject(span, arg, tm) ==
    IF ~IsTextMap(arg) THEN [carrier |-> tm, err |-> "ErrInvalidCarrier"]
    ELSE LET tm1 == MapSet(tm, fieldSpanID, FormatUint(span.SpanID, 16))
             tm2 == MapSet(tm1, fieldTraceID, FormatUint(span.TraceID, 16))
             tm3 == IF span.ParentID > 0
                    THEN MapSet(tm2, fieldParentID, FormatUint(span.ParentID, 16))
                    ELSE tm2
         IN  [carrier |-> tm3, err |-> "nil"]

\* What ParseUint's error makes the handler return.
handlerErr(r) == IF r.err # "nil" THEN "ErrSpanContextCorrupted" ELSE "nil"

\* handler comparing the key as it is, without strings.ToLower.
handlerCaseSensitive(acc, k, v) ==
    LET r == ParseUint(v, 16)
    IN  IF k = fieldSpanID
          THEN [acc EXCEPT !.spanID = r.n, !.err = handlerErr(r)]
        ELSE IF k = fieldTraceID
          THEN [acc EXCEPT !.traceID = r.n, !.err = handlerErr(r)]
        ELSE IF k = fieldParentID
          THEN [acc EXCEPT !.parentID = r.n, !.err = handlerErr(r)]
        ELSE [acc EXCEPT !.err = "nil"]

\* handler without the test of err in the case of fieldParentID.
handlerParentUnchecked(acc, k, v) ==
    LET r == ParseUint(v, 16)
        lk == ToLower(k)
    IN  IF lk = fieldSpanID
          THEN [acc EXCEPT !.spanID = r.n, !.err = handlerErr(r)]
        ELSE IF lk = fieldTraceID
          THEN [acc EXCEPT !.traceID = r.n, !.err = handlerErr(r)]
        ELSE IF lk = fieldParentID
          THEN [acc EXCEPT !.parentID = r.n, !.err = "nil"]
        ELSE [acc EXCEPT !.err = "nil"]

\* The function Extract passes to ForeachKey; acc holds the variables
\* spanID, traceID and parentID it assigns and the error it returns.
handler(acc, k, v) ==
    LET r == ParseUint(v, 16)
        lk == ToLower(k)
    IN  IF lk = fieldSpanID
          THEN [acc EXCEPT !.spanID = r.n, !.err = handlerErr(r)]
        ELSE IF lk = fieldTraceID
          THEN [acc EXCEPT !.traceID = r.n, !.err = handlerErr(r)]
        ELSE IF lk = fieldParentID
          THEN [acc EXCEPT !.parentID = r.n, !.err = handlerErr(r)]
        ELSE [acc EXCEPT !.err = "nil"]

\* TextMapCarrier.ForeachKey: the keys in the order the range loop takes,
\* returning at the first error of the handler.
RECURSIVE ForeachKey(_, _, _, _)
ForeachKey(tm, order, i, acc) ==
    IF i > Len(order) THEN acc
    ELSE LET a == handler(acc, order[i], tm[order[i]])
         IN  IF a.err # "nil" THEN a ELSE ForeachKey(tm, order, i + 1, a)

propagatorExtract(arg, tm, order) ==
    IF ~IsTextMap(arg) THEN [ctx |-> NilContext, err |-> "ErrInvalidCarrier"]
    ELSE LET a == ForeachKey(tm, order, 1,
                     [spanID |-> 0, traceID |-> 0, parentID |-> 0, err |-> "nil"])
             \* Span{&tracer.Span{SpanID: ..., ParentID: ..., TraceID: ...}}
             span == [Name |-> <<>>, Service |-> <<>>, Resource |-> <<>>,
                      SpanID |-> a.spanID, TraceID |-> a.traceID,
                      ParentID |-> a.parentID,
                      Meta |-> EmptyMap, Metrics |-> EmptyMap]
         IN  [ctx |-> Context(span), err |-> a.err]

(***************************************************************************)
(* Tracer.Inject and Tracer.Extract.                                       *)
(***************************************************************************)
\* Inject with the switch on format falling through to the propagator
\* before the error is returned.
InjectThenReject(sm, format, arg, tm) ==
    IF ~IsSpanContext(sm) THEN [carrier |-> tm, err |-> "ErrInvalidSpanContext"]
    ELSE IF format = "HTTPHeaders" THEN propagatorInject(SpanFromContext(sm), arg, tm)
    ELSE [carrier |-> propagatorInject(SpanFromContext(sm), arg, tm).carrier,
          err |-> "ErrUnsupportedFormat"]

Inject(sm, format, arg, tm) ==
    IF ~IsSpanContext(sm) THEN [carrier |-> tm, err |-> "ErrInvalidSpanContext"]
    ELSE IF format = "HTTPHeaders" THEN propagatorInject(SpanFromContext(sm), arg, tm)
    ELSE [carrier |-> tm, err |-> "ErrUnsupportedFormat"]

Extract(format, arg, tm, order) ==
    IF format = "HTTPHeaders" THEN propagatorExtract(arg, tm, order)
    ELSE [ctx |-> NilContext, err |-> "ErrUnsupportedFormat"]

(***************************************************************************)
(* Span.SetTag.  A Go value is a record of its dynamic type and its value; *)
(* a float64 is held as its whole part and its tenths.                     *)
(***************************************************************************)
\* fmt.Sprint of one value
Sprint(value) ==
    CASE value.type = "string" -> value.val
      [] value.type = "int" -> FormatUint(value.val, 10)
      [] value.type = "bool" -> IF value.val THEN <<"t","r","u","e">>
                                ELSE <<"f","a","l","s","e">>
      [] value.type = "float64" ->
             FormatUint(value.val.whole, 10) \o <<".">> \o FormatUint(value.val.tenths, 10)

GoString(s) == [type |-> "string", val |-> s]

\* tracer.Span.SetMeta and tracer.Span.SetMetric
SetMeta(span, key, val) == [span EXCEPT !.Meta = MapSet(span.Meta, key, val)]
SetMetric(span, key, val) == [span EXCEPT !.Metrics = MapSet(span.Metrics, key, val)]

\* setMeta without the switch on the reserved keys.
setMetaGeneric(span, key, value) == SetMeta(span, key, Sprint(value))

setMeta(span, key, value) ==
    LET val == Sprint(value)
    IN  IF key = ServiceTagKey THEN [span EXCEPT !.Service = val]
        ELSE IF key = ResourceTagKey THEN [span EXCEPT !.Resource = val]
        ELSE SetMeta(span, key, val)

SetTag(span, key, value) ==
    IF value.type = "float64" THEN SetMetric(span, key, value.val)
    ELSE setMeta(span, key, GoString(Sprint(value)))

(***************************************************************************)
(* Tracer.StartSpan.                                                       *)
(***************************************************************************)
\* lastChildOf without the test of ref.Type.
RECURSIVE lastReference(_, _, _)
lastReference(refs, i, parent) ==
    IF i > Len(refs) THEN parent
    ELSE IF IsSpanContext(refs[i].ReferencedContext)
         THEN lastReference(refs, i + 1, refs[i].ReferencedContext)
         ELSE lastReference(refs, i + 1, parent)

\* The loop of startSpanWithOptions over opts.References from the i-th on;
\* parent is the context the span variable was last made a child of
\* (NilContext while span == nil).  Each match makes a new child, and only
\* the last one is kept.
RECURSIVE lastChildOf(_, _, _)
lastChildOf(refs, i, parent) ==
    IF i > Len(refs) THEN parent
    ELSE IF refs[i].Type = "ChildOfRef" /\ IsSpanContext(refs[i].ReferencedContext)
         THEN lastChildOf(refs, i + 1, refs[i].ReferencedContext)
         ELSE lastChildOf(refs, i + 1, parent)

\* The loop of startSpanWithOptions over opts.Tags, in the order the range
\* loop takes its keys.
RECURSIVE applyTags(_, _, _, _)
applyTags(span, tags, order, i) ==
    IF i > Len(order) THEN span
    ELSE applyTags(SetTag(span, order[i], tags[order[i]]), tags, order, i + 1)

\* spanID is what tracer.NextSpanID returns for the span that is kept.
startSpanWithOptions(op, refs, tags, order, spanID) ==
    LET parent == lastChildOf(refs, 1, NilContext)
        span == IF parent # NilContext
                THEN NewChildSpan(op, SpanFromContext(parent), spanID)
                ELSE NewRootSpan(op, DefaultService, DefaultResource, spanID)
    IN  applyTags(span, tags, order, 1)

(***************************************************************************)
(* Inputs of the calls.                                                    *)
(***************************************************************************)
OpNames == {<<"o","p">>}

\* opentracing's built-in formats
Formats == {"HTTPHeaders", "TextMap", "Binary"}

\* What the caller passes as carrier: its TextMapCarrier, or a value that
\* is neither a TextMapWriter nor a TextMapReader.
CarrierArgs == {"TextMapCarrier", "nil"}

\* The identifiers tracer.NextSpanID draws from.
IdPool == {maxVal - 42 * i : i \in 0 .. (MaxSpans - 1)}

envKey == <<"e","n","v">>
latencyKey == <<"l","a","t","e","n","c","y">>
prod == GoString(<<"p","r","o","d">>)
checkout == GoString(<<"c","h","e","c","k","o","u","t">>)
float12_5 == [type |-> "float64", val |-> [whole |-> 12, tenths |-> 5]]
int7 == [type |-> "int", val |-> 7]

TagKeys == {ServiceTagKey, ResourceTagKey, envKey, latencyKey}
TagValues == {prod, float12_5, int7}

\* opts.Tags of a StartSpan call
TagMaps == {EmptyMap,
            MapSet(MapSet(EmptyMap, ServiceTagKey, checkout), latencyKey, float12_5)}

\* opts.References of a StartSpan call, over the contexts K
RefSeqs(K) ==
    UNION {[1..n -> [Type : {"ChildOfRef", "FollowsFromRef"}, ReferencedContext : K]]
             : n \in 0..MaxRefs}

\* The contexts a caller holds: those of the spans it started, the one the
\* last Extract returned, and one of another tracer.
KnownContexts ==
    {Context(spans[i].span) : i \in 1..Len(spans)}
      \cup {ForeignContext}
      \cup (IF last.op = "Extract" THEN {last.ctx} ELSE {})

\* The contexts of this tracer that opts.References refers to as child-of.
ChildOfContexts(refs) ==
    {refs[i].ReferencedContext :
       i \in {j \in 1..Len(refs) : /\ refs[j].Type = "ChildOfRef"
                                   /\ refs[j].ReferencedContext.kind = "SpanContext"}}

\* tracer.NextSpanID: an identifier no span of the process and no context
\* the call refers to carries.
NextSpanID(refs) ==
    IdPool \ ({spans[i].span.SpanID : i \in 1..Len(spans)}
               \cup {refs[i].ReferencedContext.span.SpanID :
                       i \in {j \in 1..Len(refs) : IsSpanContext(refs[j].ReferencedContext)}})

(***************************************************************************)
(* The calls.                                                              *)
(***************************************************************************)
\* No call of Span.Tracer is on the stack: the goroutine is free to call.
Idle == stack = 0

StartSpan(op, refs, tags, order, spanID) ==
    /\ Idle
    /\ Len(spans) < MaxSpans
    /\ LET span == startSpanWithOptions(op, refs, tags, order, spanID)
       IN  /\ spans' = Append(spans, [span |-> span,
                                       childOf |-> ChildOfContexts(refs) # {}])
           /\ last' = [op |-> "StartSpan", parents |-> ChildOfContexts(refs),
                       tags |-> tags, span |-> span]
    /\ UNCHANGED <<carrier, injected, stack>>

TracerInject(sm, format, arg) ==
    /\ Idle
    /\ LET r == Inject(sm, format, arg, carrier)
       IN  /\ carrier' = r.carrier
           /\ last' = [op |-> "Inject", sm |-> sm, format |-> format, arg |-> arg,
                       err |-> r.err]
           /\ injected' = IF r.err # "nil" THEN injected
                          ELSE IF carrier = EmptyMap THEN sm
                          ELSE NilContext
    /\ UNCHANGED <<spans, stack>>

TracerExtract(format, arg, order) ==
    /\ Idle
    /\ LET r == Extract(format, arg, carrier, order)
       IN  last' = [op |-> "Extract", format |-> format, arg |-> arg,
                    ctx |-> r.ctx, err |-> r.err]
    /\ UNCHANGED <<spans, carrier, injected, stack>>

SpanSetTag(h, key, value) ==
    /\ Idle
    /\ h \in 1..Len(spans)
    /\ spans' = [spans EXCEPT ![h].span = SetTag(spans[h].span, key, value)]
    /\ last' = [op |-> "SetTag", h |-> h, key |-> key, value |-> value]
    /\ UNCHANGED <<carrier, injected, stack>>

\* Span.Tracer: its body is a call of Span.Tracer on the same span.  Each
\* step is one such call: a new frame, or the fatal stack overflow of the
\* Go runtime once the stack is full.  No step returns.
SpanTracer(h) ==
    /\ h \in 1..Len(spans)
    /\ \/ Idle
       \/ last.op = "Tracer" /\ last.h = h /\ last.status = "running"
    /\ IF stack < MaxStack
       THEN /\ stack' = stack + 1
            /\ last' = [op |-> "Tracer", h |-> h, status |-> "running"]
       ELSE /\ stack' = stack
            /\ last' = [op |-> "Tracer", h |-> h, status |-> "stack overflow"]
    /\ UNCHANGED <<spans, carrier, injected>>

(***************************************************************************)
(* The tracer in use: spans are started, their contexts injected into the  *)
(* carrier and extracted from it, and new spans started from those.        *)
(***************************************************************************)
Init ==
    /\ spans = <<>>
    /\ carrier = EmptyMap
    /\ injected = NilContext
    /\ last = [op |-> "none"]
    /\ stack = 0

Next ==
    \/ \E op \in OpNames, tags \in TagMaps :
         \E refs \in RefSeqs(KnownContexts), order \in Orders(DOMAIN tags) :
           \E spanID \in NextSpanID(refs) : StartSpan(op, refs, tags, order, spanID)
    \/ \E sm \in KnownContexts : TracerInject(sm, "HTTPHeaders", "TextMapCarrier")
    \/ \E order \in Orders(DOMAIN carrier) :
         TracerExtract("HTTPHeaders", "TextMapCarrier", order)

Spec == Init /\ [][Next]_vars

(***************************************************************************)
(* What another process may send.                                          *)
(***************************************************************************)
\* strings.ToUpper, for the keys another process may send
upper(c) == IF Occurs(lowerLetters, c) THEN upperLetters[IndexOf(lowerLetters, c)] ELSE c
ToUpper(s) == [i \in 1..Len(s) |-> upper(s[i])]

\* "Dd-Trace-Spanid", the key as net/http canonicalises it
canonicalSpanID == <<"D","d","-","T","r","a","c","e","-","S","p","a","n","i","d">>

WireKeys == {fieldTraceID, ToUpper(fieldTraceID), fieldSpanID, canonicalSpanID,
             fieldParentID, ToUpper(fieldParentID), <<"x","-","b","3">>}

\* A value one digit too long for the identifiers' width.
overflowValue == FormatUint(maxVal, 16) \o <<"0">>
emptyValue == <<>>
nonHexValue == <<"z","z">>

WireValues == {<<"A","b">>, FormatUint(maxVal, 16), emptyValue, nonHexValue, overflowValue}

(***************************************************************************)
(* Inject and Extract on one carrier, over every format, carrier argument  *)
(* and context.                                                            *)
(***************************************************************************)
WireSpan(spanID, traceID, parentID) ==
    [Name |-> <<>>, Service |-> <<>>, Resource |-> <<>>,
     SpanID |-> spanID, TraceID |-> traceID, ParentID |-> parentID,
     Meta |-> EmptyMap, Metrics |-> EmptyMap]

InputIDs == {0, 171, maxVal}

InputContexts ==
    {Context(WireSpan(s, t, p)) : s, t, p \in InputIDs} \cup {ForeignContext}

\* The calls of Inject: every context with the supported format and a
\* text-map carrier, and some contexts with every format and carrier.
InjectCalls ==
    (InputContexts \X {"HTTPHeaders"} \X {"TextMapCarrier"})
      \cup ({Context(WireSpan(171, maxVal, 0)), Context(WireSpan(maxVal, 171, 171)),
              ForeignContext} \X Formats \X CarrierArgs)

NextRound ==
    \/ \E call \in InjectCalls : TracerInject(call[1], call[2], call[3])
    \/ \E format \in Formats, arg \in CarrierArgs, order \in Orders(DOMAIN carrier) :
         TracerExtract(format, arg, order)

\* The carrier is empty, or was received with keys in upper case.
RoundCarriers ==
    {EmptyMap,
     MapSet(EmptyMap, ToUpper(fieldParentID), <<"A","b">>),
     MapSet(MapSet(EmptyMap, ToUpper(fieldTraceID), <<"A","b">>), <<"x","-","b","3">>, nonHexValue)}

InitRound ==
    /\ spans = <<>>
    /\ carrier \in RoundCarriers
    /\ injected = NilContext
    /\ last = [op |-> "none"]
    /\ stack = 0

SpecRound == InitRound /\ [][NextRound]_vars

(***************************************************************************)
(* Extract on the carriers a process may receive.                          *)
(***************************************************************************)
WireCarriers ==
    UNION {[K -> WireValues] : K \in {S \in SUBSET WireKeys : Cardinality(S) <= MaxCarrier}}

InitProp ==
    /\ spans = <<>>
    /\ carrier \in WireCarriers
    /\ injected = NilContext
    /\ last = [op |-> "none"]
    /\ stack = 0

NextProp ==
    \E format \in {"HTTPHeaders", "Binary"}, order \in Orders(DOMAIN carrier) :
        TracerExtract(format, "TextMapCarrier", order)

SpecProp == InitProp /\ [][NextProp]_vars

(***************************************************************************)
(* The calls on one started span.                                          *)
(***************************************************************************)
InitSpan ==
    /\ \E op \in OpNames, spanID \in IdPool :
         spans = <<[span |-> NewRootSpan(op, DefaultService, DefaultResource, spanID),
                    childOf |-> FALSE]>>
    /\ carrier = EmptyMap
    /\ injected = NilContext
    /\ last = [op |-> "none"]
    /\ stack = 0

NextSpan ==
    \/ \E h \in 1..Len(spans), key \in TagKeys, value \in TagValues :
         SpanSetTag(h, key, value)
    \/ \E h \in 1..Len(spans) : SpanTracer(h)

SpecSpan == InitSpan /\ [][NextSpan]_vars

(***************************************************************************)
(* Properties.                                                             *)
(***************************************************************************)
\* The last call was Extract with the supported format on a text-map carrier.
Extracted ==
    last.op = "Extract" /\ last.format = "HTTPHeaders" /\ last.arg = "TextMapCarrier"

\* The keys that are one of the three fields in some letter case.
IsField(k) == ToUpper(k) \in {ToUpper(fieldTraceID), ToUpper(fieldSpanID), ToUpper(fieldParentID)}

\* What Extract may return from the carrier tm, over the orders of its keys.
Outcomes(tm) ==
    {Extract("HTTPHeaders", "TextMapCarrier", tm, o) : o \in Orders(DOMAIN tm)}

\* C1: a context with parentID > 0 injected with the HTTP-headers format
\* into an empty carrier is extracted from it without error and with the
\* same traceID, spanID and parentID.
C1_RoundTrip ==
    (Extracted /\ injected # NilContext /\ injected.span.ParentID > 0)
      => /\ last.err = "nil"
         /\ last.ctx.kind = "SpanContext"
         /\ last.ctx.span.TraceID = injected.span.TraceID
         /\ last.ctx.span.SpanID = injected.span.SpanID
         /\ last.ctx.span.ParentID = injected.span.ParentID

C1_Witness ==
    /\ Extracted
    /\ injected # NilContext
    /\ injected.span.ParentID = 171 /\ injected.span.SpanID = maxVal
    /\ injected.span.TraceID = 0
    /\ last.err = "nil"
    /\ last.ctx.span.SpanID = maxVal

C3_RootOmission ==
    [][ /\ (last'.op = "Inject" /\ last'.err = "nil" /\ last'.sm.span.ParentID = 0)
           => /\ {fieldSpanID, fieldTraceID} \subseteq DOMAIN carrier'
              /\ (DOMAIN carrier') \ {fieldSpanID, fieldTraceID}
                   = (DOMAIN carrier) \ {fieldSpanID, fieldTraceID}
              /\ \A k \in (DOMAIN carrier) \ {fieldSpanID, fieldTraceID} :
                    carrier'[k] = carrier[k]
        /\ (/\ last'.op = "Extract"
            /\ last'.format = "HTTPHeaders" /\ last'.arg = "TextMapCarrier"
            /\ \A k \in DOMAIN carrier : ToUpper(k) # ToUpper(fieldParentID))
           => /\ last'.ctx.kind = "SpanContext"
              /\ last'.ctx.span.ParentID = 0 ]_vars

\* A root context injected into an empty carrier and extracted from it.
C3_Witness ==
    /\ Extracted
    /\ injected # NilContext
    /\ injected.span.ParentID = 0 /\ injected.span.SpanID = 171
    /\ DOMAIN carrier = {fieldSpanID, fieldTraceID}
    /\ last.ctx.span.ParentID = 0 /\ last.ctx.span.SpanID = 171

\* C4, as claimed: Inject and Extract with a format other than the
\* text-map/HTTP-header format fail with UnsupportedFormat and leave the
\* carrier as it was.
C4_UnsupportedFormat_AsClaimed ==
    [][ (last'.op \in {"Inject", "Extract"} /\ last'.format = "Binary")
          => (last'.err = "ErrUnsupportedFormat" /\ carrier' = carrier) ]_vars

\* C4: Extract with a format other than HTTPHeaders fails with
\* UnsupportedFormat; Inject with such a format fails with UnsupportedFormat
\* when the context is one of this tracer and with InvalidSpanContext when
\* it is not; the carrier is as it was before the call.
C4_UnsupportedFormat ==
    [][ (last'.op \in {"Inject", "Extract"} /\ last'.format # "HTTPHeaders")
          => /\ carrier' = carrier
             /\ last'.op = "Extract" => last'.err = "ErrUnsupportedFormat"
             /\ last'.op = "Inject" =>
                  last'.err = IF last'.sm.kind = "SpanContext"
                              THEN "ErrUnsupportedFormat"
                              ELSE "ErrInvalidSpanContext" ]_vars

C4_Witness ==
    /\ last.op = "Inject"
    /\ last.format = "Binary" /\ last.arg = "TextMapCarrier"
    /\ last.sm.kind = "SpanContext"
    /\ last.err = "ErrUnsupportedFormat"
    /\ DOMAIN carrier = {ToUpper(fieldParentID)}

\* C5: Extract from a carrier in which a key that is one of the three
\* fields in some letter case holds the empty string, a string with a
\* character that is no hexadecimal digit or a number too large for the
\* identifiers' width fails with ContextCorrupted.
C5_CorruptedInput ==
    (/\ Extracted
     /\ \E k \in DOMAIN carrier :
           IsField(k) /\ carrier[k] \in {emptyValue, nonHexValue, overflowValue})
      => last.err = "ErrSpanContextCorrupted"

C5_Witness ==
    /\ Extracted
    /\ DOMAIN carrier = {ToUpper(fieldParentID), fieldTraceID}
    /\ carrier[ToUpper(fieldParentID)] = overflowValue
    /\ carrier[fieldTraceID] = <<"A","b">>
    /\ last.err = "ErrSpanContextCorrupted"
    /\ last.ctx.span.TraceID = 171

\* The keys of WireKeys that are k in another letter case.
Recasings(k) == {k2 \in WireKeys : ToUpper(k2) = ToUpper(k) /\ k2 # k}

\* The carrier tm with its key k replaced by k2, and the same for an order
\* of its keys.
Rekey(tm, k, k2) ==
    [x \in ((DOMAIN tm) \ {k}) \cup {k2} |-> IF x = k2 THEN tm[k] ELSE tm[x]]
RekeyOrder(o, k, k2) == [i \in 1..Len(o) |-> IF o[i] = k THEN k2 ELSE o[i]]

\* C6: with the letter case of one key of the carrier changed and the
\* values kept, Extract returns the same error and the same context when
\* the keys are enumerated in the same order, and what the last Extract
\* returned is what it may return from the changed carrier.
C6_CaseInsensitive ==
    \A k \in DOMAIN carrier : \A k2 \in Recasings(k) \ DOMAIN carrier :
        /\ \A o \in Orders(DOMAIN carrier) :
              Extract("HTTPHeaders", "TextMapCarrier", Rekey(carrier, k, k2),
                      RekeyOrder(o, k, k2))
                = Extract("HTTPHeaders", "TextMapCarrier", carrier, o)
        /\ Extracted =>
              [ctx |-> last.ctx, err |-> last.err] \in Outcomes(Rekey(carrier, k, k2))

C6_Witness ==
    /\ Extracted
    /\ DOMAIN carrier = {ToUpper(fieldTraceID), canonicalSpanID}
    /\ last.err = "nil"
    /\ last.ctx.span.TraceID = 171 /\ last.ctx.span.SpanID = maxVal

\* C7, as claimed: SetTag(key, value) sets the service name for the key
\* "service" and the resource name for the key "resource", leaving the
\* tags as they were, and for any other key records a float64 as a metric
\* and the string form of any other value as a tag.
C7_TagDispatch_AsClaimed ==
    [][ last'.op = "SetTag" =>
          LET s == spans[last'.h].span
              s2 == spans'[last'.h].span
              key == last'.key
              value == last'.value
          IN  /\ key = ServiceTagKey => (s2.Service = Sprint(value) /\ s2.Meta = s.Meta)
              /\ key = ResourceTagKey => (s2.Resource = Sprint(value) /\ s2.Meta = s.Meta)
              /\ (key \notin {ServiceTagKey, ResourceTagKey} /\ value.type = "float64")
                   => (key \in DOMAIN s2.Metrics /\ s2.Metrics[key] = value.val)
              /\ (key \notin {ServiceTagKey, ResourceTagKey} /\ value.type # "float64")
                   => (key \in DOMAIN s2.Meta /\ s2.Meta[key] = Sprint(value)) ]_vars

\* C7: SetTag(key, value) records a float64 as a metric under key, whatever
\* the key; for any other value it sets the service name for the key
\* "service" and the resource name for the key "resource", leaving the
\* tags as they were, and records the string form as a tag under any other
\* key.  It changes nothing else of the span and returns the same span.
C7_TagDispatch ==
    [][ last'.op = "SetTag" =>
          LET s == spans[last'.h].span
              s2 == spans'[last'.h].span
              key == last'.key
              value == last'.value
          IN  /\ Len(spans') = Len(spans)
              /\ s2.SpanID = s.SpanID /\ s2.TraceID = s.TraceID
              /\ s2.ParentID = s.ParentID /\ s2.Name = s.Name
              /\ value.type = "float64" =>
                   /\ key \in DOMAIN s2.Metrics /\ s2.Metrics[key] = value.val
                   /\ s2.Meta = s.Meta
                   /\ s2.Service = s.Service /\ s2.Resource = s.Resource
              /\ (value.type # "float64" /\ key = ServiceTagKey) =>
                   /\ s2.Service = Sprint(value)
                   /\ s2.Meta = s.Meta /\ s2.Metrics = s.Metrics
                   /\ s2.Resource = s.Resource
              /\ (value.type # "float64" /\ key = ResourceTagKey) =>
                   /\ s2.Resource = Sprint(value)
                   /\ s2.Meta = s.Meta /\ s2.Metrics = s.Metrics
                   /\ s2.Service = s.Service
              /\ (value.type # "float64" /\ key \notin {ServiceTagKey, ResourceTagKey}) =>
                   /\ key \in DOMAIN s2.Meta /\ s2.Meta[key] = Sprint(value)
                   /\ s2.Metrics = s.Metrics
                   /\ s2.Service = s.Service /\ s2.Resource = s.Resource ]_vars

\* The service name was set by the tag "service", after a metric and a tag.
C7_Witness ==
    /\ last.op = "SetTag"
    /\ last.key = ServiceTagKey /\ last.value = int7
    /\ spans[last.h].span.Service = <<"7">>
    /\ DOMAIN spans[last.h].span.Meta = {envKey}
    /\ spans[last.h].span.Meta[envKey] = <<"p","r","o","d">>
    /\ DOMAIN spans[last.h].span.Metrics = {latencyKey}

\* C8: a span StartSpan returned has parentID = 0 exactly when it was
\* started without a child-of reference to a context of this tracer.
C8_RootInvariant ==
    \A i \in 1..Len(spans) : (spans[i].span.ParentID = 0) <=> ~spans[i].childOf

\* C9: what Extract returned is what it returns for every order in which
\* the carrier enumerates its keys: the same error, and without error the
\* same context.
C9_OrderIndependent ==
    Extracted =>
      \A r \in Outcomes(carrier) :
         /\ r.err = last.err
         /\ last.err = "nil" => r.ctx = last.ctx

\* C10: a call of Span.Tracer returns: it does not recurse until the
\* goroutine stack is exhausted.
C10_TracerTerminates ==
    ~(last.op = "Tracer" /\ last.status = "stack overflow")

=============================================================================
